---- MODULE Spec2Model ----
(***************************************************************************)
(* note0: the offline-first notes store (zustand store `useNotesStore`),   *)
(* the sync hook `useSync`, the connectivity hook `useOnline`, the         *)
(* localStorage mirror `NoteStorage` and the Supabase repository `db.notes`*)
(* as one state machine.                                                   *)
(*                                                                         *)
(* Scheduling: JavaScript's single thread.  A step of the model is one     *)
(* macrotask: a user call, a timer callback or the arrival of a network    *)
(* response, together with everything that runs synchronously after it     *)
(* (the continuation up to the next `await` of a network call).  A network *)
(* request is processed by the backend when it is issued; its response is  *)
(* delivered by a later step.  User mutations issued online (one request,  *)
(* one response) are taken as one step.                                    *)
(***************************************************************************)
EXTENDS Integers, Sequences, FiniteSets, TLC

(* ------------------------------ bounds --------------------------------- *)
MaxMutations == 3   \* calls of the user-facing store actions in a run
MaxCycles == 2      \* sync cycles, drains and fetches started in a run
MaxFlips == 3       \* changes of connectivity and of backend reachability in a run
MaxTasks == 2       \* asynchronous sync / fetch activities in flight at once
MaxTimers == 2      \* pending one-shot timers of each kind (reconnect, retry)
MaxNotes == 3       \* notes of a collection given to buildNoteTree / canMoveNote

(* ------------------------- program constants --------------------------- *)
NoParent == 0                       \* parent_id: null
NoSelection == 0                    \* selectedNoteId: null
RETRY_ATTEMPTS == 3                 \* SYNC_CONFIG.RETRY_ATTEMPTS
RETRY_DELAY == 1000                 \* SYNC_CONFIG.RETRY_DELAY
MAX_DEPTH == 10                     \* max_depth of prevent_circular_reference()

Positions == {0, 1}
Titles == {<<"a">>, <<"b">>}

(* ----------------------------- sequences ------------------------------- *)
\* Array.prototype.findIndex(n => n.id === id); 0 when absent
RECURSIVE findIndexFrom(_, _, _)
findIndexFrom(ns, id, k) ==
    IF k > Len(ns) THEN 0
    ELSE IF ns[k].id = id THEN k
    ELSE findIndexFrom(ns, id, k + 1)

findIndex(ns, id) == findIndexFrom(ns, id, 1)

HasNote(ns, id) == findIndex(ns, id) # 0

\* the notes in the order of the collection
inCollectionOrder(ns) == ns

\* Array.prototype.sort((a, b) => a.position - b.position): the sort is
\* stable, so an element comes before another when its position is smaller,
\* or equal and it came first.  (CHOOSE result \in {f(x) : x \in {e}} is f(e)
\* with e computed once.)
sortByPosition(ns) ==
    LET sorted(xs) ==
            LET before(j, k) == \/ xs[j].position < xs[k].position
                                \/ xs[j].position = xs[k].position /\ j < k
                rank(k)      == 1 + Cardinality({j \in 1..Len(xs) : before(j, k)})
            IN  [r \in 1..Len(xs) |-> xs[CHOOSE k \in 1..Len(xs) : rank(k) = r]]
    IN  CHOOSE result \in {sorted(xs) : xs \in {ns}} : TRUE

(* --------------------------- buildNoteTree ----------------------------- *)
childrenOf(ns, id) == SelectSeq(ns, LAMBDA n : n.parent_id = id)

\* a tree whose nodes all carry the depth of their root
RECURSIVE buildTreeNodeFlat(_, _, _)
buildTreeNodeFlat(ns, note, depth) ==
    LET node(kids) == [id |-> note.id, title |-> note.title, parent_id |-> note.parent_id,
                       position |-> note.position, is_archived |-> note.is_archived,
                       children |-> [k \in 1..Len(kids) |-> buildTreeNodeFlat(ns, kids[k], depth)],
                       depth |-> depth, path |-> <<>>]
    IN  CHOOSE result \in {node(kids) : kids \in {sortByPosition(childrenOf(ns, note.id))}} : TRUE

RECURSIVE buildTreeNode(_, _, _)
buildTreeNode(ns, note, depth) ==
    LET node(kids) ==
            [id          |-> note.id,
             title       |-> note.title,
             parent_id   |-> note.parent_id,
             position    |-> note.position,
             is_archived |-> note.is_archived,
             children    |-> [k \in 1..Len(kids) |->
                                 buildTreeNode(ns, kids[k], depth + 1)],
             depth       |-> depth,
             path        |-> <<>>]
    IN  CHOOSE result \in
            {node(kids) : kids \in {sortByPosition(childrenOf(ns, note.id))}} : TRUE

\* a tree that lists the root notes twice
buildNoteTreeRepeated(ns) ==
    LET tree(rootNotes) ==
            [k \in 1..(2 * Len(rootNotes)) |->
                buildTreeNode(ns, rootNotes[((k - 1) % Len(rootNotes)) + 1], 0)]
    IN  CHOOSE result \in
            {tree(rootNotes) : rootNotes \in {sortByPosition(childrenOf(ns, NoParent))}} : TRUE

\* roots: notes.filter(note => !note.parent_id)
buildNoteTree(ns) ==
    LET tree(rootNotes) ==
            [k \in 1..Len(rootNotes) |-> buildTreeNode(ns, rootNotes[k], 0)]
    IN  CHOOSE result \in
            {tree(rootNotes) : rootNotes \in {sortByPosition(childrenOf(ns, NoParent))}} : TRUE

(* ------------------- the repository: db.notes + schema ----------------- *)
\* a key of a CreateNoteInput / UpdateNoteInput, or the column default
Field(input, key, default) == IF key \in DOMAIN input THEN input[key] ELSE default

parentOf(rows, id) ==
    IF HasNote(rows, id) THEN rows[findIndex(rows, id)].parent_id ELSE NoParent

\* the WHILE loop of prevent_circular_reference(): TRUE when it raises
RECURSIVE raisesCircular(_, _, _, _)
raisesCircular(rows, newId, current, counter) ==
    IF counter >= MAX_DEPTH THEN TRUE
    ELSE IF current = NoParent THEN FALSE
    ELSE IF current = newId THEN TRUE
    ELSE raisesCircular(rows, newId, parentOf(rows, current), counter + 1)

\* BEFORE INSERT OR UPDATE trigger and the parent_id foreign key
rowAccepted(rows, new) ==
    \/ new.parent_id = NoParent
    \/ /\ new.id # new.parent_id
       /\ HasNote(rows, new.parent_id)
       /\ ~raisesCircular(rows, new.id, new.parent_id, 0)

Without(rows, id) == SelectSeq(rows, LAMBDA r : r.id # id)

\* db.notes.create(input): the row the insert returns, with the id the
\* database generates
createdRow(input, newId) ==
    [id          |-> newId,
     title       |-> input.title,
     parent_id   |-> Field(input, "parent_id", NoParent),
     position    |-> Field(input, "position", 0),
     is_archived |-> FALSE,
     sync_status |-> "synced"]

dbCreate(rows, input, newId) ==
    LET row == createdRow(input, newId)
    IN  IF rowAccepted(rows, row)
        THEN [ok |-> TRUE, rows |-> <<row>> \o rows, row |-> row]
        ELSE [ok |-> FALSE, rows |-> rows]

\* db.notes.update(input): patches the columns the input names; .single()
\* fails when no row has the id.  getAll orders by updated_at descending, so
\* the patched row moves to the front.
UpdateColumns == {"title", "parent_id", "position", "is_archived"}

patchedRow(old, input) ==
    [c \in DOMAIN old |->
        IF c \in UpdateColumns /\ c \in DOMAIN input THEN input[c] ELSE old[c]]

dbUpdate(rows, input) ==
    IF ~HasNote(rows, input.id) THEN [ok |-> FALSE, rows |-> rows]
    ELSE LET row == patchedRow(rows[findIndex(rows, input.id)], input)
         IN  IF rowAccepted(rows, row)
             THEN [ok |-> TRUE, rows |-> <<row>> \o Without(rows, input.id), row |-> row]
             ELSE [ok |-> FALSE, rows |-> rows]

\* db.notes.delete(id): no error when no row matches; ON DELETE SET NULL
\* patches the children, which moves them to the front
dbDelete(rows, id) ==
    LET rest    == Without(rows, id)
        orphans == SelectSeq(rest, LAMBDA r : r.parent_id = id)
        others  == SelectSeq(rest, LAMBDA r : r.parent_id # id)
    IN  [ok   |-> TRUE,
         rows |-> [k \in 1..Len(orphans) |-> [orphans[k] EXCEPT !.parent_id = NoParent]]
                  \o others]

(* ------------------------------- state --------------------------------- *)
VARIABLES
    notes,          \* store: notes
    noteTree,       \* store: noteTree
    selectedNoteId, \* store: selectedNoteId
    offlineQueue,   \* store: offlineQueue
    syncStatus,     \* store: syncStatus
    isOnline,       \* store: isOnline
    storedNotes,    \* localStorage[STORAGE_KEYS.NOTES] as NoteStorage writes it
    storedQueue,    \* localStorage[STORAGE_KEYS.OFFLINE_QUEUE]
    server,         \* the rows of the `notes` table, most recently updated first
    repoUp,         \* whether a request to the backend succeeds on the network
    nextId,         \* next identifier generateId() / uuid_generate_v4() returns
    nextOp,         \* next identifier of an offline operation
    retryCount,     \* useSync: retryCountRef.current
    retryTimers,    \* useSync: pending retry timeouts
    reconnectTimers,\* useSync: pending setTimeout(sync, 1000) of the reconnect effect
    interval,       \* useSync: the periodic setInterval and the closure it holds
    mounted,        \* useSync: whether the component that uses the hook is mounted
    tasks,          \* asynchronous activities suspended at an await
    applied,        \* history: operations whose repository call succeeded
    issued,         \* history: createNote / updateNote / deleteNote calls made
                    \*   offline since the queue was last emptied
    accepted,       \* history: those of them that did not fail
    lastDelay,      \* history: the delay of the retry scheduled last since a cycle of
                    \*   sync() last succeeded or the user last reset the retries
                    \*   (0: none)
    left,           \* what the run may still do: [mut, cyc, flip, hier, live], see Budgets
    ev              \* history: the step taken last

vars == <<notes, noteTree, selectedNoteId, offlineQueue, syncStatus, isOnline, storedNotes,
          storedQueue, server, repoUp, nextId, nextOp, retryCount, retryTimers,
          reconnectTimers, interval, mounted, tasks, applied, issued, accepted,
          lastDelay, left, ev>>

\* the part of the state the handlers of the store and of the hook write
Cur ==
    [notes |-> notes, noteTree |-> noteTree, selectedNoteId |-> selectedNoteId,
     offlineQueue |-> offlineQueue,
     syncStatus |-> syncStatus, storedNotes |-> storedNotes,
     storedQueue |-> storedQueue, server |-> server, nextId |-> nextId,
     nextOp |-> nextOp, retryCount |-> retryCount, retryTimers |-> retryTimers,
     applied |-> applied, issued |-> issued, accepted |-> accepted,
     lastDelay |-> lastDelay,
     calls |-> 0,         \* history: repository calls issued by the step
     stamps |-> {},       \* history: copies of the last-sync time the step wrote
     nulls |-> 0,         \* history: updateNote calls of the step that returned null
     returned |-> TRUE,   \* history: what moveNote / reorderNotes returned
     key |-> "kept"]      \* history: the writer that wrote localStorage[
                          \*   STORAGE_KEYS.NOTES] last in the step, if any

Commit(s) ==
    /\ notes' = s.notes
    /\ noteTree' = s.noteTree
    /\ selectedNoteId' = s.selectedNoteId
    /\ offlineQueue' = s.offlineQueue
    /\ syncStatus' = s.syncStatus
    /\ storedNotes' = s.storedNotes
    /\ storedQueue' = s.storedQueue
    /\ server' = s.server
    /\ nextId' = s.nextId
    /\ nextOp' = s.nextOp
    /\ retryCount' = s.retryCount
    /\ retryTimers' = s.retryTimers
    /\ applied' = s.applied
    /\ issued' = s.issued
    /\ accepted' = s.accepted
    /\ lastDelay' = s.lastDelay

Idle == [kind |-> "idle"]

\* the runs explored, by what a run may contain: mut user actions, cyc sync
\* cycles, flip connectivity changes; hier: whether the user actions include
\* the hierarchy and archive actions besides create / update / delete; tear:
\* whether the component that uses the sync hook may be unmounted
Budgets ==
    {[mut |-> MaxMutations, cyc |-> MaxCycles - 1, flip |-> MaxFlips - 2,
      hier |-> TRUE, live |-> FALSE, deep |-> FALSE, tear |-> FALSE],
     [mut |-> MaxMutations, cyc |-> MaxCycles - 1, flip |-> MaxFlips,
      hier |-> FALSE, live |-> FALSE, deep |-> FALSE, tear |-> FALSE],
     [mut |-> MaxMutations - 2, cyc |-> MaxCycles, flip |-> MaxFlips,
      hier |-> FALSE, live |-> FALSE, deep |-> FALSE, tear |-> TRUE],
     [mut |-> MaxMutations - 2, cyc |-> RETRY_ATTEMPTS + 1, flip |-> MaxFlips,
      hier |-> FALSE, live |-> FALSE, deep |-> FALSE, tear |-> FALSE]}

\* the runs in which sync cycles are not counted (live): the timers of the
\* hook keep firing for as long as the application runs
LiveBudget ==
    [mut |-> MaxMutations - 1, cyc |-> 0, flip |-> MaxFlips + 1,
     hier |-> FALSE, live |-> TRUE, deep |-> FALSE, tear |-> FALSE]

\* the runs in which the user only creates notes (deep), each one a child of
\* the note created last, until the chain can be MAX_DEPTH + 2 long
DeepBudget ==
    [mut |-> MAX_DEPTH + 2, cyc |-> 0, flip |-> MaxFlips - 1,
     hier |-> FALSE, live |-> FALSE, deep |-> TRUE, tear |-> FALSE]

\* the runs in which the user creates, edits and deletes notes and the queue
\* is replayed once
ReplayBudget ==
    [mut |-> MaxMutations, cyc |-> MaxCycles - 1, flip |-> MaxFlips - 1,
     hier |-> TRUE, live |-> FALSE, deep |-> FALSE, tear |-> FALSE]

Fresh(budgets) ==
    /\ notes = <<>>
    /\ noteTree = <<>>
    /\ selectedNoteId = NoSelection
    /\ offlineQueue = <<>>
    /\ syncStatus = "synced"
    /\ isOnline = TRUE
    /\ storedNotes = <<>>
    /\ storedQueue = <<>>
    /\ server = <<>>
    /\ repoUp = TRUE
    /\ nextId = 1
    /\ nextOp = 1
    /\ retryCount = 0
    /\ retryTimers = <<>>
    /\ reconnectTimers = 0
    /\ interval = "q0"
    /\ mounted = TRUE
    /\ tasks = [k \in 1..MaxTasks |-> Idle]
    /\ applied = {}
    /\ issued = 0
    /\ accepted = 0
    /\ lastDelay = 0
    /\ left \in budgets
    /\ ev = [a |-> "Init"]

Init == Fresh(Budgets)

LiveInit == Fresh({LiveBudget})

DeepInit == Fresh({DeepBudget})

ReplayInit == Fresh({ReplayBudget})

SelectionInit == Fresh({ReplayBudget})

(* --------------------------- store handlers ---------------------------- *)
\* the persist middleware, configured with name: STORAGE_KEYS.NOTES: every
\* set() of the store writes { state: partialize(state), version } under
\* that key
persist(s) == [s EXCEPT !.key = "persist"]

\* actions.buildNoteTree()
rebuilt(s) == persist([s EXCEPT !.noteTree = buildNoteTree(s.notes)])

\* NoteStorage.setNotes(get().notes)
mirrored(s) == [s EXCEPT !.storedNotes = s.notes, !.key = "setNotes"]

\* a queue that keeps only the operation added last
addToOfflineQueueLatest(s, operation, data) ==
    LET op == [id |-> s.nextOp, operation |-> operation, data |-> data]
    IN  persist([s EXCEPT !.offlineQueue = <<op>>, !.storedQueue = <<op>>,
                          !.nextOp = @ + 1])

\* actions.addToOfflineQueue(operation)
addToOfflineQueue(s, operation, data) ==
    LET op == [id |-> s.nextOp, operation |-> operation, data |-> data]
        q  == Append(s.offlineQueue, op)
    IN  persist([s EXCEPT !.offlineQueue = q, !.storedQueue = q, !.nextOp = @ + 1])

\* actions.clearOfflineQueue()
clearOfflineQueue(s) ==
    persist([s EXCEPT !.offlineQueue = <<>>, !.storedQueue = <<>>,
                      !.issued = 0, !.accepted = 0])

\* the note createNote synthesizes offline
localNote(input, newId) ==
    [id          |-> newId,
     title       |-> input.title,
     parent_id   |-> Field(input, "parent_id", NoParent),
     position    |-> Field(input, "position", 0),
     is_archived |-> FALSE,
     sync_status |-> "pending"]

\* state.notes.push(newNote); state.selectedNoteId = newNote.id;
\* NoteStorage.setNotes; buildNoteTree
pushed(s, newNote) ==
    rebuilt(mirrored([s EXCEPT !.notes = Append(@, newNote),
                               !.selectedNoteId = newNote.id]))

\* actions.createNote(input)
createNote(s, input, online, up) ==
    IF online
    THEN LET r == dbCreate(s.server, input, s.nextId)
             c == persist([s EXCEPT !.calls = @ + 1])
         IN  IF up /\ r.ok
             THEN pushed([c EXCEPT !.server = r.rows, !.nextId = @ + 1], r.row)
             ELSE c
    ELSE pushed(addToOfflineQueue([s EXCEPT !.nextId = @ + 1, !.issued = @ + 1,
                                            !.accepted = @ + 1],
                                  "create", input),
                localNote(input, s.nextId))

\* state.notes[index] = updatedNote, when the index is found
replaced(ns, id, note) ==
    [k \in 1..Len(ns) |-> IF k = findIndex(ns, id) THEN note ELSE ns[k]]

\* { ...existingNote, ...input, sync_status: 'pending' }
mergedNote(existing, input) ==
    [c \in DOMAIN existing |->
        IF c = "sync_status" THEN "pending"
        ELSE IF c \in DOMAIN input THEN input[c] ELSE existing[c]]

\* actions.updateNote(input)
updateNote(s, input, online, up) ==
    IF online
    THEN LET r == dbUpdate(s.server, input)
             c == [s EXCEPT !.calls = @ + 1]
         IN  IF up /\ r.ok
             THEN mirrored([c EXCEPT !.server = r.rows,
                                     !.notes = replaced(@, input.id, r.row)])
             ELSE persist([c EXCEPT !.nulls = @ + 1])
    ELSE IF ~HasNote(s.notes, input.id)
         THEN persist([s EXCEPT !.issued = @ + 1, !.nulls = @ + 1])
         ELSE LET updatedNote == mergedNote(s.notes[findIndex(s.notes, input.id)], input)
                  queued == addToOfflineQueue([s EXCEPT !.issued = @ + 1,
                                                        !.accepted = @ + 1],
                                              "update", input)
              IN  mirrored([queued EXCEPT !.notes = replaced(@, input.id, updatedNote)])

\* a deleteNote(id) that calls the repository whatever the connectivity
deleteNoteUnrouted(s, id, online, up) ==
    IF up
    THEN rebuilt(mirrored([s EXCEPT !.notes = Without(@, id),
                                    !.server = dbDelete(s.server, id).rows,
                                    !.calls = @ + 1]))
    ELSE persist([s EXCEPT !.calls = @ + 1])

\* actions.deleteNote(id)
deleteNote(s, id, online, up) ==
    LET removed(x) ==
            rebuilt(mirrored([x EXCEPT !.notes = Without(@, id),
                                       !.selectedNoteId =
                                           IF @ = id THEN NoSelection ELSE @]))
    IN  IF online
        THEN IF up
             THEN removed([s EXCEPT !.server = dbDelete(s.server, id).rows,
                                    !.calls = @ + 1])
             ELSE persist([s EXCEPT !.calls = @ + 1])
        ELSE removed(addToOfflineQueue([s EXCEPT !.issued = @ + 1, !.accepted = @ + 1],
                                       "delete", [id |-> id]))

\* actions.moveNote(noteId, newParentId, newPosition)
\* updateNote never throws, so the catch block is not reached
moveNote(s, noteId, newParentId, newPosition, online, up) ==
    [rebuilt(updateNote(s, [id |-> noteId, parent_id |-> newParentId,
                            position |-> newPosition], online, up))
        EXCEPT !.returned = TRUE]

\* actions.reorderNotes(parentId, noteIds)
RECURSIVE reorderFrom(_, _, _, _, _, _)
reorderFrom(s, parentId, noteIds, index, online, up) ==
    IF index > Len(noteIds) THEN s
    ELSE reorderFrom(updateNote(s, [id |-> noteIds[index], parent_id |-> parentId,
                                    position |-> index - 1], online, up),
                     parentId, noteIds, index + 1, online, up)

reorderNotes(s, parentId, noteIds, online, up) ==
    [rebuilt(reorderFrom(s, parentId, noteIds, 1, online, up)) EXCEPT !.returned = TRUE]

\* actions.duplicateNote(id): createNote without a position
duplicateInput(original) ==
    [title |-> Append(original.title, "Copy"), parent_id |-> original.parent_id]

(* ------------------------- useSync: the retries ------------------------ *)
RECURSIVE Pow2(_)
Pow2(n) == IF n = 0 THEN 1 ELSE 2 * Pow2(n - 1)

unheld(timers) == [k \in 1..Len(timers) |-> [timers[k] EXCEPT !.held = FALSE]]

\* history: the timeouts pending when forceSync() / retryFailedSync() is called
\* are marked as scheduled before that call
superseded(timers) ==
    [k \in 1..Len(timers) |-> [timers[k] EXCEPT !.superseded = TRUE]]

\* a scheduleRetry() without the cap on the attempts
scheduleRetryUncapped(s, cQ) ==
    [s EXCEPT !.retryCount = @ + 1,
              !.lastDelay = RETRY_DELAY * Pow2(s.retryCount),
              !.retryTimers = Append(unheld(@),
                   [cQ |-> cQ, held |-> TRUE, superseded |-> FALSE,
                    delay |-> RETRY_DELAY * Pow2(s.retryCount)])]

\* scheduleRetry(); cQ is `offlineQueue.length > 0` as the closure of the
\* failed sync() sees it, which the retried sync() sees again
scheduleRetry(s, cQ) ==
    IF s.retryCount >= RETRY_ATTEMPTS THEN s
    ELSE [s EXCEPT !.retryCount = @ + 1,
                   !.lastDelay = RETRY_DELAY * Pow2(s.retryCount),
                   !.retryTimers = Append(unheld(@),
                        [cQ |-> cQ, held |-> TRUE, superseded |-> FALSE,
                         delay |-> RETRY_DELAY * Pow2(s.retryCount)])]

\* clearTimeout(retryTimeoutRef.current)
clearRetryTimeout(s) ==
    [s EXCEPT !.retryTimers = SelectSeq(@, LAMBDA tm : ~tm.held)]

(* ------------------- sync cycles: the asynchronous part ---------------- *)
\* a task is an invocation of sync() ("sync"), syncWithCloud() ("cloud"),
\* processOfflineQueue() ("drain") or fetchNotes() ("fetch") suspended at
\* pc: "check" (checkConnection), "drain" (the call for q[i]), "fetch"
\* (getAll).  failed: the operations of q whose call failed in this pass.
\* n: the value of retryCountRef.current when sync() was called.
Task(kind, cQ) ==
    [kind |-> kind, pc |-> "new", q |-> <<>>, i |-> 0, res |-> [ok |-> TRUE],
     cQ |-> cQ, failed |-> {}, n |-> 0]

Out(s, t) == [s |-> s, t |-> t]

\* the tail of sync() / syncWithCloud() after fetchNotes() has returned:
\* sync() saves the time with NoteStorage.setLastSync, syncWithCloud() sets
\* state.lastSyncAt and saves it
finished(s, kind) ==
    IF kind = "sync"
    THEN persist([s EXCEPT !.syncStatus = "synced", !.retryCount = 0,
                           !.stamps = @ \cup {"LAST_SYNC"}])
    ELSE IF kind = "cloud"
    THEN persist([s EXCEPT !.syncStatus = "synced",
                           !.stamps = @ \cup {"lastSyncAt", "LAST_SYNC"}])
    ELSE s

\* the catch block of sync()
syncFailed(s, cQ) == scheduleRetry(persist([s EXCEPT !.syncStatus = "error"]), cQ)

\* history: a cycle of sync() in which no call failed has ended
succeeded(s, t, ok) ==
    IF t.kind = "sync" /\ ok /\ t.failed = {} THEN [s EXCEPT !.lastDelay = 0] ELSE s

\* fetchNotes() up to its await: offline it reads the mirror and returns
fetchBegin(s, t, online, up) ==
    IF online
    THEN Out(persist([s EXCEPT !.calls = @ + 1]),
             [t EXCEPT !.pc = "fetch", !.i = 0,
                       !.res = IF up THEN [ok |-> TRUE, data |-> s.server]
                                     ELSE [ok |-> FALSE]])
    ELSE Out(succeeded(finished(rebuilt([s EXCEPT !.notes = s.storedNotes,
                                                  !.stamps = @ \cup {"lastSyncAt"}]),
                                t.kind), t, TRUE), Idle)

\* fetchNotes() from the response of getAll on
fetchEnd(s, t) ==
    LET got == IF t.res.ok
               THEN rebuilt([s EXCEPT !.storedNotes = t.res.data,
                                      !.notes = t.res.data,
                                      !.stamps = @ \cup {"lastSyncAt"}])
               ELSE persist([s EXCEPT !.notes = s.storedNotes])
    IN  Out(succeeded(finished(got, t.kind), t, t.res.ok), Idle)

\* what follows `await processOfflineQueue()` in the caller
afterDrain(s, t, online, up) ==
    IF t.kind = "drain" THEN Out(s, Idle) ELSE fetchBegin(s, t, online, up)

\* the switch of processOfflineQueue(): the repository call for one operation
callFor(s, op) ==
    IF op.operation = "create" THEN dbCreate(s.server, op.data, s.nextId)
    ELSE IF op.operation = "update" THEN dbUpdate(s.server, op.data)
    ELSE dbDelete(s.server, op.data.id)

\* one iteration of the loop of processOfflineQueue(), up to its await
drainIssue(s, t, index, up) ==
    LET op == t.q[index]
        r  == callFor(s, op)
        c  == [s EXCEPT !.calls = @ + 1]
    IN  IF up /\ r.ok
        THEN Out([c EXCEPT !.server = r.rows,
                           !.nextId = IF op.operation = "create" THEN @ + 1 ELSE @,
                           !.applied = @ \cup {op.id}],
                 [t EXCEPT !.pc = "drain", !.i = index])
        ELSE Out(c, [t EXCEPT !.pc = "drain", !.i = index,
                              !.failed = @ \cup {op.id}])

\* a processOfflineQueue() that refetches the collection when there is
\* nothing to replay
processBeginRefetching(s, t, online, up) ==
    IF s.offlineQueue = <<>> THEN fetchBegin(s, t, online, up)
    ELSE drainIssue(s, [t EXCEPT !.q = s.offlineQueue], 1, up)

\* processOfflineQueue() up to its first await
processBegin(s, t, online, up) ==
    IF s.offlineQueue = <<>> THEN afterDrain(s, t, online, up)
    ELSE drainIssue(s, [t EXCEPT !.q = s.offlineQueue], 1, up)

\* processOfflineQueue() from a response on: the next operation of the
\* snapshot, or, after the last one, clearOfflineQueue() and the return
processStep(s, t, online, up) ==
    IF t.i < Len(t.q) THEN drainIssue(s, t, t.i + 1, up)
    ELSE afterDrain(clearOfflineQueue(s), t, online, up)

\* a sync() whose closure sees the application offline: it returns at once
syncBeginOffline(s, cQ, up) == Out(s, Idle)

\* sync() up to its await of checkConnection()
syncBegin(s, cQ, up) ==
    Out(persist([s EXCEPT !.syncStatus = "syncing", !.calls = @ + 1]),
        [Task("sync", cQ) EXCEPT !.pc = "check", !.res = [ok |-> up],
                                 !.n = s.retryCount])

\* sync() from the answer of checkConnection() on
syncChecked(s, t, online, up) ==
    IF ~t.res.ok THEN Out(syncFailed(s, t.cQ), Idle)
    ELSE IF t.cQ THEN processBegin(s, t, online, up)
    ELSE fetchBegin(s, t, online, up)

\* syncWithCloud() up to its first await
cloudBegin(s, online, up) ==
    processBegin(persist([s EXCEPT !.syncStatus = "syncing"]), Task("cloud", FALSE),
                 online, up)

(* ------------------------------ actions -------------------------------- *)
NoteIds(ns) == {ns[k].id : k \in 1..Len(ns)}

\* identifiers a caller can name: the notes shown, and one handed out
\* earlier that is no longer (or not yet) in the collection
Absent == {id \in 1..(nextId - 1) : ~HasNote(notes, id)}
Targets ==
    NoteIds(notes) \cup
    (IF Absent = {} THEN {} ELSE {CHOOSE id \in Absent : \A other \in Absent : id <= other})
ParentChoices == {NoParent} \cup NoteIds(notes)
\* notes are created below other notes and at chosen positions only in the
\* runs that exercise the hierarchy
Newest == IF notes = <<>> THEN NoParent ELSE notes[Len(notes)].id

CreateParents ==
    IF left.deep THEN {Newest}
    ELSE IF left.hier THEN ParentChoices ELSE {NoParent}

CreatePositions == IF left.hier THEN Positions ELSE {0}

CreateTitles == IF left.live THEN Titles ELSE {<<"a">>}
ReorderChoices ==
    {<<id>> : id \in NoteIds(notes)} \cup
    {pair \in NoteIds(notes) \X NoteIds(notes) : pair[1] # pair[2]}

FreeSlots == {k \in 1..MaxTasks : tasks[k] = Idle}
FirstFree == CHOOSE k \in FreeSlots : \A other \in FreeSlots : k <= other

Event(name, s) == [a |-> name, calls |-> s.calls, stamps |-> s.stamps, key |-> s.key]

\* a user-facing store action that completes in the step
Mutated(s, e) ==
    /\ left.mut > 0
    /\ Commit(s)
    /\ ev' = e
    /\ left' = [left EXCEPT !.mut = @ - 1]
    /\ UNCHANGED <<isOnline, repoUp, mounted, reconnectTimers, interval, tasks>>

CanStart == left.live \/ left.cyc > 0

CycleSpent == IF left.live THEN left ELSE [left EXCEPT !.cyc = @ - 1]

\* a handler that may leave a task suspended
Started(out, e) ==
    /\ CanStart
    /\ Len(out.s.retryTimers) <= MaxTimers
    /\ out.t = Idle \/ FreeSlots # {}
    /\ Commit(out.s)
    /\ tasks' = IF out.t = Idle THEN tasks ELSE [tasks EXCEPT ![FirstFree] = out.t]
    /\ ev' = e

\* the continuation of the task in slot k
Resumed(k, out, e) ==
    /\ Len(out.s.retryTimers) <= MaxTimers
    /\ Commit(out.s)
    /\ tasks' = [tasks EXCEPT ![k] = out.t]
    /\ ev' = e
    /\ UNCHANGED <<isOnline, repoUp, mounted, reconnectTimers, interval, left>>

CreateNote ==
    \E title \in CreateTitles, parent \in CreateParents, position \in CreatePositions :
        LET s == createNote(Cur, [title |-> title, parent_id |-> parent,
                                     position |-> position], isOnline, repoUp)
        IN  Mutated(s, Event("CreateNote", s))

DuplicateNote ==
    /\ left.hier
    /\ \E id \in NoteIds(notes) :
        LET s == createNote(Cur, duplicateInput(notes[findIndex(notes, id)]),
                               isOnline, repoUp)
        IN  Mutated(s, Event("DuplicateNote", s))

UpdateNote ==
    \E id \in Targets, title \in Titles :
        LET s == updateNote(Cur, [id |-> id, title |-> title], isOnline, repoUp)
        IN  Mutated(s, [a |-> "UpdateNote", calls |-> s.calls, stamps |-> s.stamps,
                           key |-> s.key,
                           id |-> id])

\* archiveNote(id) / unarchiveNote(id)
ArchiveNote ==
    /\ left.hier
    /\ \E id \in Targets, archived \in BOOLEAN :
        LET s == updateNote(Cur, [id |-> id, is_archived |-> archived],
                               isOnline, repoUp)
        IN  Mutated(s, [a |-> "ArchiveNote", calls |-> s.calls, stamps |-> s.stamps,
                           key |-> s.key,
                           id |-> id])

DeleteNote ==
    \E id \in Targets :
        LET s == deleteNote(Cur, id, isOnline, repoUp)
        IN  Mutated(s, Event("DeleteNote", s))

MoveNote ==
    /\ left.hier
    /\ \E id \in Targets, parent \in ParentChoices, position \in Positions :
        LET s == moveNote(Cur, id, parent, position, isOnline, repoUp)
        IN  Mutated(s, [a |-> "MoveNote", calls |-> s.calls, stamps |-> s.stamps,
                           key |-> s.key,
                           id |-> id, parent |-> parent,
                           nulls |-> s.nulls, returned |-> s.returned])

ReorderNotes ==
    /\ left.hier
    /\ \E parent \in ParentChoices, noteIds \in ReorderChoices :
        LET s == reorderNotes(Cur, parent, noteIds, isOnline, repoUp)
        IN  Mutated(s, [a |-> "ReorderNotes", calls |-> s.calls, stamps |-> s.stamps,
                           key |-> s.key,
                           nulls |-> s.nulls, returned |-> s.returned])

\* actions.selectNote(id), called with a note shown or with null
selectNote(s, id) == persist([s EXCEPT !.selectedNoteId = id])

\* actions.selectNextNote(); findIndex gives -1 for an id that is not found
selectNextNote(s) ==
    IF s.notes = <<>> THEN s
    ELSE LET currentIndex == IF s.selectedNoteId # NoSelection
                             THEN findIndex(s.notes, s.selectedNoteId) - 1 ELSE -1
             nextIndex    == IF currentIndex < Len(s.notes) - 1
                             THEN currentIndex + 1 ELSE 0
         IN  selectNote(s, s.notes[nextIndex + 1].id)

\* actions.selectPrevNote()
selectPrevNote(s) ==
    IF s.notes = <<>> THEN s
    ELSE LET currentIndex == IF s.selectedNoteId # NoSelection
                             THEN findIndex(s.notes, s.selectedNoteId) - 1 ELSE -1
             prevIndex    == IF currentIndex > 0
                             THEN currentIndex - 1 ELSE Len(s.notes) - 1
         IN  selectNote(s, s.notes[prevIndex + 1].id)

\* a store action that changes the selection only
Selected(s, name) ==
    /\ Commit(s)
    /\ ev' = Event(name, s)
    /\ UNCHANGED <<isOnline, repoUp, mounted, reconnectTimers, interval, tasks, left>>

SelectNote ==
    \E id \in NoteIds(notes) \cup {NoSelection} : Selected(selectNote(Cur, id), "SelectNote")

SelectNextNote == Selected(selectNextNote(Cur), "SelectNextNote")

SelectPrevNote == Selected(selectPrevNote(Cur), "SelectPrevNote")

\* actions.fetchNotes() / refreshNotes()
FetchNotes ==
    /\ CanStart
    /\ LET out == fetchBegin(Cur, Task("fetch", FALSE), isOnline, repoUp)
       IN  /\ Started(out, Event("FetchNotes", out.s))
           /\ left' = CycleSpent
           /\ UNCHANGED <<isOnline, repoUp, mounted, reconnectTimers, interval>>

\* actions.processOfflineQueue() called on its own
ProcessOfflineQueue ==
    /\ CanStart
    /\ LET out == processBegin(Cur, Task("drain", FALSE), isOnline, repoUp)
       IN  /\ Started(out, Event("ProcessOfflineQueue", out.s))
           /\ left' = CycleSpent
           /\ UNCHANGED <<isOnline, repoUp, mounted, reconnectTimers, interval>>

\* actions.syncWithCloud() called on its own
SyncWithCloud ==
    /\ isOnline
    /\ LET out == cloudBegin(Cur, isOnline, repoUp)
       IN  /\ Started(out, Event("SyncWithCloud", out.s))
           /\ left' = CycleSpent
           /\ UNCHANGED <<isOnline, repoUp, mounted, reconnectTimers, interval>>

\* actions.clearOfflineQueue() called on its own
ClearOfflineQueue ==
    /\ left.mut > 0
    /\ LET s == clearOfflineQueue(Cur) IN Mutated(s, Event("ClearOfflineQueue", s))

\* actions.reset(): the queue mirror is not written
Reset ==
    /\ left.mut > 0
    /\ LET s == persist([Cur EXCEPT !.notes = <<>>, !.noteTree = <<>>,
                                    !.selectedNoteId = NoSelection,
                                    !.syncStatus = "synced", !.offlineQueue = <<>>,
                                    !.issued = 0, !.accepted = 0])
       IN  Mutated(s, Event("Reset", s))

\* useOnline: updateConnectionStatus(online) -> actions.setOnlineStatus(online).
\* The producer runs before the new state is committed, so the
\* syncWithCloud() it calls reads the previous isOnline through get(); the
\* `syncing` that call writes is overwritten when the producer commits.
\* Then the effects of useSync that depend on isOnline run, when the hook is
\* mounted.
SetOnlineStatus ==
    \E online \in BOOLEAN :
        LET nested  == online /\ offlineQueue # <<>> /\ isOnline
            begun   == cloudBegin(Cur, TRUE, repoUp)
            out     == IF nested
                       THEN Out([begun.s EXCEPT !.syncStatus = syncStatus], begun.t)
                       ELSE Out(persist(Cur), Idle)
            changed == mounted /\ online # isOnline
        IN  /\ IF nested
               THEN Started(out, Event("SetOnlineStatus", out.s))
               ELSE /\ Commit(out.s)
                    /\ ev' = Event("SetOnlineStatus", out.s)
                    /\ UNCHANGED tasks
            /\ left.flip > 0
            /\ left' = [IF nested THEN CycleSpent ELSE left EXCEPT !.flip = @ - 1]
            /\ isOnline' = online
            /\ reconnectTimers' =
                  IF changed /\ online /\ offlineQueue # <<>>
                  THEN reconnectTimers + 1 ELSE reconnectTimers
            /\ reconnectTimers' <= MaxTimers
            /\ interval' = IF ~changed THEN interval
                           ELSE IF ~online THEN "off"
                           ELSE IF offlineQueue = <<>> THEN "q0" ELSE "q1"
            /\ UNCHANGED <<repoUp, mounted>>

\* the component that uses useSync is unmounted: the cleanup of the periodic
\* effect and the cleanup effect clear the interval and the timeout that
\* retryTimeoutRef holds
Unmount ==
    /\ mounted
    /\ left.tear
    /\ mounted' = FALSE
    /\ interval' = "off"
    /\ retryTimers' = clearRetryTimeout(Cur).retryTimers
    /\ ev' = [a |-> "Unmount", calls |-> 0, stamps |-> {}, key |-> "kept"]
    /\ UNCHANGED <<notes, noteTree, selectedNoteId, offlineQueue, syncStatus, isOnline, storedNotes,
                   storedQueue, server, repoUp, nextId, nextOp, retryCount,
                   reconnectTimers, tasks, applied, issued, accepted, lastDelay, left>>

\* the backend becomes unreachable / reachable again
RepoChange ==
    /\ left.flip > 0
    /\ left' = [left EXCEPT !.flip = @ - 1]
    /\ repoUp' = ~repoUp
    /\ ev' = [a |-> "RepoChange", calls |-> 0, stamps |-> {}, key |-> "kept"]
    /\ UNCHANGED <<notes, noteTree, selectedNoteId, offlineQueue, syncStatus, isOnline, storedNotes,
                   storedQueue, server, nextId, nextOp, retryCount, retryTimers,
                   reconnectTimers, interval, mounted, tasks, applied, issued, accepted,
                   lastDelay>>

\* sync() called by the user interface: the closure of the last render
ManualSync ==
    /\ mounted
    /\ isOnline
    /\ LET out == syncBegin(Cur, offlineQueue # <<>>, repoUp)
       IN  /\ Started(out, Event("ManualSync", out.s))
           /\ left' = CycleSpent
           /\ UNCHANGED <<isOnline, repoUp, mounted, reconnectTimers, interval>>

\* forceSync()
ForceSync ==
    /\ mounted
    /\ isOnline
    /\ LET out == syncBegin([Cur EXCEPT !.retryCount = 0, !.lastDelay = 0,
                                        !.retryTimers = superseded(@)],
                            offlineQueue # <<>>, repoUp)
       IN  /\ Started(out, Event("ForceSync", out.s))
           /\ left' = CycleSpent
           /\ UNCHANGED <<isOnline, repoUp, mounted, reconnectTimers, interval>>

\* retryFailedSync()
RetryFailedSync ==
    /\ mounted
    /\ isOnline
    /\ LET out == syncBegin([clearRetryTimeout(Cur) EXCEPT
                                 !.retryCount = 0, !.lastDelay = 0,
                                 !.retryTimers = superseded(@)],
                            offlineQueue # <<>>, repoUp)
       IN  /\ Started(out, Event("RetryFailedSync", out.s))
           /\ left' = CycleSpent
           /\ UNCHANGED <<isOnline, repoUp, mounted, reconnectTimers, interval>>

\* resetSync()
ResetSync ==
    /\ mounted
    /\ left.mut > 0
    /\ LET s == clearOfflineQueue([clearRetryTimeout(Cur) EXCEPT !.retryCount = 0,
                                                                !.lastDelay = 0,
                                                                !.syncStatus = "synced"])
       IN  Mutated(s, Event("ResetSync", s))

\* the periodic setInterval fires: sync() of the render that set it up
IntervalFire ==
    /\ interval # "off"
    /\ \E out \in {syncBegin(Cur, interval = "q1", repoUp)} :
           /\ Started(out, Event("IntervalFire", out.s))
           /\ left' = CycleSpent
           /\ UNCHANGED <<isOnline, repoUp, mounted, reconnectTimers, interval>>

\* the setTimeout of the reconnect effect fires
ReconnectFire ==
    /\ reconnectTimers > 0
    /\ \E out \in {syncBegin(Cur, TRUE, repoUp)} :
           /\ Started(out, Event("ReconnectFire", out.s))
           /\ reconnectTimers' = reconnectTimers - 1
           /\ left' = CycleSpent
           /\ UNCHANGED <<isOnline, repoUp, mounted, interval>>

\* a retry timeout fires
RetryFire ==
    \E j \in 1..Len(retryTimers) :
        LET rest == [k \in 1..(Len(retryTimers) - 1) |->
                        IF k < j THEN retryTimers[k] ELSE retryTimers[k + 1]]
            out  == syncBegin([Cur EXCEPT !.retryTimers = rest], retryTimers[j].cQ, repoUp)
        IN  /\ Started(out, [a |-> "RetryFire", calls |-> out.s.calls,
                              stamps |-> out.s.stamps, key |-> out.s.key,
                              timer |-> retryTimers[j]])
            /\ left' = CycleSpent
           /\ UNCHANGED <<isOnline, repoUp, mounted, reconnectTimers, interval>>

\* the answer of checkConnection() arrives
CheckDoneAt(k) ==
    /\ tasks[k].kind # "idle"
    /\ tasks[k].pc = "check"
    /\ \E out \in {syncChecked(Cur, tasks[k], isOnline, repoUp)} :
          Resumed(k, out, [a |-> "CheckDone", calls |-> out.s.calls, stamps |-> out.s.stamps,
                           key |-> out.s.key,
                           ok |-> tasks[k].res.ok])

CheckDone == \E k \in 1..MaxTasks : CheckDoneAt(k)

\* the response to the repository call of a queued operation arrives
DrainStepAt(k) ==
    /\ tasks[k].kind # "idle"
    /\ tasks[k].pc = "drain"
    /\ \E out \in {processStep(Cur, tasks[k], isOnline, repoUp)} :
          Resumed(k, out,
              IF tasks[k].i < Len(tasks[k].q)
              THEN Event("DrainStep", out.s)
              ELSE [a |-> "DrainEnd", calls |-> out.s.calls, stamps |-> out.s.stamps,
                    key |-> out.s.key,
                    kind |-> tasks[k].kind,
                    q |-> tasks[k].q, failed |-> tasks[k].failed])

DrainStep == \E k \in 1..MaxTasks : DrainStepAt(k)

\* the response of getAll arrives
FetchDoneAt(k) ==
    /\ tasks[k].kind # "idle"
    /\ tasks[k].pc = "fetch"
    /\ \E out \in {fetchEnd(Cur, tasks[k])} :
          Resumed(k, out, [a |-> "FetchDone", calls |-> out.s.calls, stamps |-> out.s.stamps,
                           key |-> out.s.key,
                           ok |-> tasks[k].res.ok, kind |-> tasks[k].kind,
                           q |-> tasks[k].q, failed |-> tasks[k].failed,
                           n |-> tasks[k].n])

FetchDone == \E k \in 1..MaxTasks : FetchDoneAt(k)

Next ==
    \/ CreateNote
    \/ DuplicateNote
    \/ UpdateNote
    \/ ArchiveNote
    \/ DeleteNote
    \/ MoveNote
    \/ ReorderNotes
    \/ FetchNotes
    \/ ProcessOfflineQueue
    \/ SyncWithCloud
    \/ ClearOfflineQueue
    \/ Reset
    \/ SetOnlineStatus
    \/ RepoChange
    \/ ManualSync
    \/ ForceSync
    \/ RetryFailedSync
    \/ ResetSync
    \/ Unmount
    \/ IntervalFire
    \/ ReconnectFire
    \/ RetryFire
    \/ CheckDone
    \/ DrainStep
    \/ FetchDone

Spec == Init /\ [][Next]_vars

\* The application left running against a repository that accepts every
\* call: the user creates notes, connectivity changes, the timers of the hook
\* fire and every response arrives.
LiveNext ==
    \/ CreateNote
    \/ SetOnlineStatus
    \/ IntervalFire
    \/ ReconnectFire
    \/ CheckDone
    \/ DrainStep
    \/ FetchDone

Fairness ==
    /\ WF_vars(IntervalFire)
    /\ WF_vars(ReconnectFire)
    /\ \A k \in 1..MaxTasks :
          WF_vars(CheckDoneAt(k)) /\ WF_vars(DrainStepAt(k)) /\ WF_vars(FetchDoneAt(k))

LiveSpec == LiveInit /\ [][LiveNext]_vars /\ Fairness

\* The user creates notes, online or offline, and nothing else happens.
DeepNext ==
    \/ CreateNote
    \/ SetOnlineStatus

DeepSpec == DeepInit /\ [][DeepNext]_vars

\* The user works offline, or online while nothing is queued; the queue is
\* replayed by processOfflineQueue() against a repository that answers every
\* call.
ReplayNext ==
    \/ (isOnline => offlineQueue = <<>>) /\ CreateNote
    \/ (isOnline => offlineQueue = <<>>) /\ UpdateNote
    \/ (isOnline => offlineQueue = <<>>) /\ DeleteNote
    \/ SetOnlineStatus
    \/ ProcessOfflineQueue
    \/ DrainStep

ReplaySpec == ReplayInit /\ [][ReplayNext]_vars

\* The user creates, deletes and selects notes, online and offline, resets
\* the store, and the collection is refetched and synchronized.
SelectionNext ==
    \/ CreateNote
    \/ DeleteNote
    \/ SelectNote
    \/ SelectNextNote
    \/ SelectPrevNote
    \/ Reset
    \/ SetOnlineStatus
    \/ FetchNotes
    \/ SyncWithCloud
    \/ DrainStep
    \/ FetchDone

SelectionSpec == SelectionInit /\ [][SelectionNext]_vars

(* ------------------------- hierarchy helpers --------------------------- *)
\* the ids reachable from the notes in `frontier` through child links
RECURSIVE reach(_, _, _)
reach(ns, frontier, seen) ==
    LET kids == {ns[k].id : k \in {j \in 1..Len(ns) : ns[j].parent_id \in frontier}}
        new  == kids \ seen
    IN  IF new = {} THEN seen ELSE reach(ns, new, seen \cup new)

\* getDescendants(noteId), as a set of ids
getDescendants(ns, noteId) == reach(ns, {noteId}, {})

\* getDescendants(noteId) as the list the loop builds: each child, followed
\* by its own descendants
RECURSIVE descendants(_, _)
RECURSIVE descendantsFrom(_, _, _)
descendantsFrom(ns, children, k) ==
    IF k > Len(children) THEN <<>>
    ELSE <<children[k]>> \o descendants(ns, children[k].id)
                        \o descendantsFrom(ns, children, k + 1)

descendants(ns, noteId) == descendantsFrom(ns, childrenOf(ns, noteId), 1)

\* a canMoveNote that looks at the children of the note only
canMoveNoteChildrenOnly(ns, noteId, targetParentId) ==
    /\ noteId # targetParentId
    /\ ~\E k \in 1..Len(ns) : ns[k].parent_id = noteId /\ ns[k].id = targetParentId

\* canMoveNote(noteId, targetParentId)
canMoveNote(ns, noteId, targetParentId) ==
    /\ noteId # targetParentId
    /\ targetParentId \notin getDescendants(ns, noteId)

\* no note is its own ancestor
Acyclic(ns) == \A k \in 1..Len(ns) : ns[k].id \notin getDescendants(ns, ns[k].id)

(* ------------- buildNoteTree and canMoveNote on any collection --------- *)
\* the collections of n notes with the ids 1..n: every parent_id among null
\* and the ids (a note may name itself or a descendant), every position
CollectionsOf(n) ==
    {[k \in 1..n |-> [id |-> k, title |-> <<"a">>, parent_id |-> parents[k],
                      position |-> positions[k], is_archived |-> FALSE,
                      sync_status |-> "synced"]] :
        parents \in [1..n -> {NoParent} \cup 1..n], positions \in [1..n -> Positions]}

Collections == UNION {CollectionsOf(n) : n \in 0..MaxNotes}

HierarchyInit ==
    /\ notes \in Collections
    /\ noteTree = <<>>
    /\ selectedNoteId = NoSelection
    /\ offlineQueue = <<>>
    /\ syncStatus = "synced"
    /\ isOnline = TRUE
    /\ storedNotes = <<>>
    /\ storedQueue = <<>>
    /\ server = <<>>
    /\ repoUp = TRUE
    /\ nextId = MaxNotes + 1
    /\ nextOp = 1
    /\ retryCount = 0
    /\ retryTimers = <<>>
    /\ reconnectTimers = 0
    /\ interval = "q0"
    /\ mounted = TRUE
    /\ tasks = [k \in 1..MaxTasks |-> Idle]
    /\ applied = {}
    /\ issued = 0
    /\ accepted = 0
    /\ lastDelay = 0
    /\ left = ReplayBudget
    /\ ev = [a |-> "Init"]

\* actions.buildNoteTree() called on its own
BuildNoteTree ==
    LET s == rebuilt(Cur)
    IN  /\ Commit(s)
        /\ ev' = Event("BuildNoteTree", s)
        /\ UNCHANGED <<isOnline, repoUp, mounted, reconnectTimers, interval, tasks, left>>

\* canMoveNote(noteId, targetParentId) of useNoteHierarchy, called with a note
\* of an acyclic collection and with a note of the collection or null
CanMoveNote ==
    /\ Acyclic(notes)
    /\ \E noteId \in NoteIds(notes), targetParentId \in NoteIds(notes) \cup {NoParent} :
          /\ ev' = [a |-> "CanMoveNote", calls |-> 0, stamps |-> {}, key |-> "kept",
                    id |-> noteId, target |-> targetParentId,
                    descendants |-> descendants(notes, noteId),
                    result |-> canMoveNote(notes, noteId, targetParentId)]
          /\ UNCHANGED <<notes, noteTree, selectedNoteId, offlineQueue, syncStatus,
                         isOnline, storedNotes, storedQueue, server, repoUp, nextId,
                         nextOp, retryCount, retryTimers, reconnectTimers, interval,
                         mounted, tasks, applied, issued, accepted, lastDelay, left>>

HierarchyNext ==
    \/ BuildNoteTree
    \/ CanMoveNote

HierarchySpec == HierarchyInit /\ [][HierarchyNext]_vars

(* ------------------------------ properties ----------------------------- *)
QueueIds(q) == {q[k].id : k \in 1..Len(q)}

Abandons == {"ClearOfflineQueue", "ResetSync", "Reset"}

FailedOf(q, failed) == SelectSeq(q, LAMBDA op : op.id \in failed)

Draining(k) == tasks[k].kind # "idle" /\ tasks[k].pc = "drain"

\* C1: an operation leaves the offline queue only in a step after which its
\* own repository call has succeeded, or in a step in which the user abandons
\* the queue (clearOfflineQueue, resetSync, reset); in particular an
\* operation enqueued while a pass is in flight is not removed by that pass.
C1_RemovedOnlyWhenApplied ==
    [][\A id \in QueueIds(offlineQueue) \ QueueIds(offlineQueue') :
            id \in applied' \/ ev'.a \in Abandons]_vars

\* C2: when a pass of processOfflineQueue ends, the operations whose call
\* failed in it are still in the offline queue, in their original order.
C2_FailedStayQueued ==
    ev.a = "DrainEnd" =>
        FailedOf(offlineQueue, ev.failed) = FailedOf(ev.q, ev.failed)

\* C3: a pass replays the queue first-in-first-out and does not go past an
\* operation that failed: while the call for the i-th operation of the pass
\* is issued, the calls for all operations before it have succeeded.
C3_ReplayStopsAtFailure ==
    \A k \in 1..MaxTasks :
        Draining(k) =>
            \A j \in 1..(tasks[k].i - 1) : tasks[k].q[j].id \in applied

\* C4: at most one sync cycle (sync() of the hook or syncWithCloud() of the
\* store) is in flight at any time.
C4_OneCycleInFlight ==
    Cardinality({k \in 1..MaxTasks : tasks[k].kind \in {"sync", "cloud"}}) <= 1

\* C5 as stated: the queue is as long as the number of createNote / updateNote
\* / deleteNote calls made offline since it was last empty.
C5_LengthIsIssued == Len(offlineQueue) = issued

\* C5: the queue is as long as the number of offline mutations that were
\* accepted since it was last emptied: every createNote and deleteNote, and
\* every updateNote whose note is in the collection.
C5_LengthIsAccepted == Len(offlineQueue) = accepted

C5_Witness ==
    /\ ~isOnline
    /\ ev.a = "UpdateNote"
    /\ accepted >= 1
    /\ issued > accepted
    /\ Len(offlineQueue) = accepted

\* C6: when a pass in which every call succeeded ends, the queue is empty and
\* every note of the collection is marked synced.
C6_DrainedMeansSynced ==
    (ev.a = "DrainEnd" /\ ev.failed = {}) =>
        /\ offlineQueue = <<>>
        /\ \A k \in 1..Len(notes) : notes[k].sync_status = "synced"

\* C8: moveNote(A, B, position) with B = A or B a descendant of A changes
\* neither the collection nor the tree nor the queue and calls no repository.
C8_BadMoveRejected ==
    [][(ev'.a = "MoveNote" /\ HasNote(notes, ev'.id)
            /\ ~canMoveNote(notes, ev'.id, ev'.parent))
        => (UNCHANGED <<notes, noteTree, offlineQueue>> /\ ev'.calls = 0)]_vars

\* C9: the parent relation of the collection is acyclic in every state.
C9_ParentsAcyclic == Acyclic(notes)

Changes ==
    {"CreateNote", "DuplicateNote", "UpdateNote", "ArchiveNote", "DeleteNote",
     "MoveNote", "ReorderNotes", "FetchDone"}

\* C10: after every store action that changes the collection, and after
\* fetchNotes on success and on its fallback, noteTree is the tree built from
\* the current notes.
C10_TreeMatchesNotes == ev.a \in Changes => noteTree = buildNoteTree(notes)

\* the note N1 of the scenario is the one titled "b"
N1 == <<"b">>

N1Queued ==
    /\ Len(offlineQueue) = 1
    /\ offlineQueue[1].operation = "create"
    /\ offlineQueue[1].data.title = N1
    /\ \E k \in 1..Len(notes) : notes[k].title = N1 /\ notes[k].sync_status = "pending"

N1Synced ==
    /\ offlineQueue = <<>>
    /\ syncStatus = "synced"
    /\ \E k \in 1..Len(notes) : notes[k].title = N1 /\ notes[k].sync_status = "synced"

\* C7: once N1, created offline, is the only queued operation and the
\* application is online, then, unless connectivity is lost again, eventually
\* the queue is empty, syncStatus is synced and N1 is marked synced.
C7_EventuallySynced == (N1Queued /\ isOnline) ~> (N1Synced \/ ~isOnline)

(* --------------------------- the tree's shape -------------------------- *)
\* the nodes of a tree, at every level
RECURSIVE Nodes(_)
Nodes(tree) == UNION {{tree[k]} \cup Nodes(tree[k].children) : k \in 1..Len(tree)}

\* the number of parent_id hops from the note id to a note without a parent;
\* -1 when the chain leaves the collection or does not end
RECURSIVE HopsWithin(_, _, _)
HopsWithin(ns, id, fuel) ==
    IF fuel = 0 \/ ~HasNote(ns, id) THEN -1
    ELSE LET p == ns[findIndex(ns, id)].parent_id
         IN  IF p = NoParent THEN 0
             ELSE LET h == HopsWithin(ns, p, fuel - 1)
                  IN  IF h < 0 THEN -1 ELSE h + 1

Hops(ns, id) == HopsWithin(ns, id, Len(ns))

\* C11: in the tree that buildNoteTree materializes from the collection,
\* every node reports as its depth the number of parent hops from its note to
\* a root of the collection; roots report 0.
C11_DepthIsHops ==
    noteTree = buildNoteTree(notes) =>
        \A node \in Nodes(noteTree) : node.depth = Hops(notes, node.id)

\* offline, N1 is created and then a child of N1: one root with one child
C11_Witness ==
    /\ ~isOnline
    /\ ev.a = "CreateNote"
    /\ Len(notes) = 2
    /\ notes[1].parent_id = NoParent
    /\ notes[2].parent_id = notes[1].id
    /\ Len(noteTree) = 1
    /\ noteTree[1].id = notes[1].id /\ noteTree[1].depth = 0
    /\ Len(noteTree[1].children) = 1
    /\ noteTree[1].children[1].id = notes[2].id
    /\ noteTree[1].children[1].depth = 1
    /\ noteTree[1].children[1].children = <<>>

\* the notes of the collection whose parent_id is id, as indexes
ChildIndexes(ns, id) == {k \in 1..Len(ns) : ns[k].parent_id = id}

\* the nodes of level are exactly the notes whose parent_id is id, each once,
\* in ascending order of position
LevelIs(ns, level, id) ==
    /\ Len(level) = Cardinality(ChildIndexes(ns, id))
    /\ {level[k].id : k \in 1..Len(level)} = {ns[k].id : k \in ChildIndexes(ns, id)}
    /\ \A i, j \in 1..Len(level) : i < j => level[i].position <= level[j].position

\* C12: in the tree that buildNoteTree produces from the collection, the
\* children of every node are exactly the notes whose parent_id is the node's
\* id, each once and in ascending order of position, and the roots are in
\* ascending order of position.
C12_ChildrenExactAndSorted ==
    noteTree = buildNoteTree(notes) =>
        /\ \A node \in Nodes(noteTree) : LevelIs(notes, node.children, node.id)
        /\ \A i, j \in 1..Len(noteTree) :
                i < j => noteTree[i].position <= noteTree[j].position

\* a node whose two children were created in descending order of position
C12_Witness ==
    /\ Len(notes) = 3
    /\ notes[1].parent_id = NoParent
    /\ notes[2].parent_id = notes[1].id /\ notes[3].parent_id = notes[1].id
    /\ notes[2].position > notes[3].position
    /\ noteTree = buildNoteTree(notes)
    /\ Len(noteTree) = 1 /\ Len(noteTree[1].children) = 2
    /\ noteTree[1].children[1].id = notes[3].id
    /\ noteTree[1].children[2].id = notes[2].id

\* a note whose parent_id names a note that is not in the collection
Orphan(ns, k) == ns[k].parent_id # NoParent /\ ~HasNote(ns, ns[k].parent_id)

\* C13: in the tree that buildNoteTree produces from the collection, every
\* note whose parent is not in the collection is a root.
C13_OrphansAreRoots ==
    noteTree = buildNoteTree(notes) =>
        \A k \in 1..Len(notes) :
            Orphan(notes, k) => \E r \in 1..Len(noteTree) : noteTree[r].id = notes[k].id

\* C14: every createNote, online or offline and whether or not the
\* repository call fails, adds the new note to the collection.
C14_CreateAlwaysAdds ==
    [][ev'.a = "CreateNote" => Len(notes') = Len(notes) + 1]_vars

\* a cycle of sync() has just ended after one of its steps failed: the
\* reachability check, the call for a queued operation, or the refetch
SyncEndedFailed ==
    \/ ev.a = "CheckDone" /\ ~ev.ok
    \/ ev.a = "FetchDone" /\ ev.kind = "sync" /\ (~ev.ok \/ ev.failed # {})

\* C15: when a cycle of sync() ends after one of its steps failed, syncStatus
\* is error and a retry timer is pending (unless the attempts are used up).
C15_FailedCycleEndsInError ==
    SyncEndedFailed =>
        /\ syncStatus = "error"
        /\ retryTimers # <<>> \/ retryCount >= RETRY_ATTEMPTS

\* the steps in which the code sets retryCountRef.current to 0
CounterResets ==
    {"RetryFailedSync", "ForceSync", "ResetSync", "CheckDone", "DrainStep",
     "DrainEnd", "FetchDone"}

\* C16 as stated: once the cap is reached, only retryFailedSync() brings the
\* attempt counter back under it.
C16_OnlyManualRetryResets ==
    [][(retryCount = RETRY_ATTEMPTS /\ retryCount' < RETRY_ATTEMPTS)
            => ev'.a = "RetryFailedSync"]_vars

\* C16: the attempt counter never exceeds RETRY_ATTEMPTS; a retry timer is
\* scheduled only while the counter is below the cap, and counts as one
\* attempt; a cycle that fails at the cap schedules nothing, ends in error and
\* leaves the queue and the counter as they were; the counter decreases only
\* by being reset to 0, by retryFailedSync, forceSync, resetSync or the end
\* of a cycle of sync() that did not throw.
C16_RetriesCapped ==
    [][/\ retryCount' <= RETRY_ATTEMPTS
       /\ Len(retryTimers') > Len(retryTimers)
            => retryCount < RETRY_ATTEMPTS /\ retryCount' = retryCount + 1
       /\ (ev'.a = "CheckDone" /\ ~ev'.ok /\ retryCount = RETRY_ATTEMPTS)
            => /\ syncStatus' = "error"
               /\ UNCHANGED <<retryTimers, retryCount, offlineQueue>>
       /\ retryCount' < retryCount
            => /\ retryCount' = 0
               /\ ev'.a \in CounterResets
               /\ ev'.a \in {"CheckDone", "DrainStep", "DrainEnd", "FetchDone"}
                    => syncStatus' = "synced"]_vars

\* a cycle has failed with the attempts used up: no timer is pending, the
\* engine is in error and the queued operation is still queued
C16_Witness ==
    /\ ev.a = "CheckDone" /\ ~ev.ok
    /\ retryCount = RETRY_ATTEMPTS
    /\ retryTimers = <<>>
    /\ syncStatus = "error"
    /\ offlineQueue # <<>>

\* C17: when a cycle of sync() that started with the attempt counter at 0
\* ends after the call for the 1st of its 3 queued operations failed, a retry
\* timer is pending whose delay is 2 * RETRY_DELAY.
C17_FirstRetryDelayDoubled ==
    (/\ ev.a = "FetchDone" /\ ev.kind = "sync" /\ ev.n = 0
     /\ Len(ev.q) = 3 /\ ev.q[1].id \in ev.failed)
        => \E j \in 1..Len(retryTimers) : retryTimers[j].delay = 2 * RETRY_DELAY

\* C18: processOfflineQueue() called with an empty queue issues no
\* repository call, suspends nothing and leaves the notes, the queue, the
\* tree, syncStatus, the persisted mirrors and the repository unchanged, so
\* that a second call right after it does nothing either.
C18_EmptyDrainIsNoOp ==
    [][(ev'.a = "ProcessOfflineQueue" /\ offlineQueue = <<>>)
        => /\ ev'.calls = 0
           /\ UNCHANGED <<notes, offlineQueue, noteTree, syncStatus, storedNotes,
                          storedQueue, server, tasks, retryCount, retryTimers>>
           /\ processBegin(Cur, Task("drain", FALSE), isOnline, repoUp)
                = Out(Cur, Idle)]_vars

\* processOfflineQueue() has just run on an empty queue, with notes in the
\* collection and in the mirror
C18_Witness ==
    /\ ev.a = "ProcessOfflineQueue"
    /\ offlineQueue = <<>>
    /\ notes # <<>> /\ storedNotes # <<>> /\ noteTree # <<>>

\* C19: in every state, every note of the collection is at most
\* MAX_HIERARCHY_DEPTH parent hops away from a root.
C19_DepthBounded ==
    \A k \in 1..Len(notes) : Hops(notes, notes[k].id) <= MAX_DEPTH

\* C20: in the tree that buildNoteTree produces from the collection, no node
\* is an archived note.
C20_NoArchivedNode ==
    noteTree = buildNoteTree(notes) =>
        \A node \in Nodes(noteTree) : ~node.is_archived

(* ---------------------------- replay of the queue ---------------------- *)
\* in this step the pass in slot k has issued the repository call for an
\* operation of its snapshot
CallIssued(k) ==
    /\ tasks'[k].kind # "idle"
    /\ tasks'[k].pc = "drain"
    /\ tasks'[k] # tasks[k]

IssuedOp(k) == tasks'[k].q[tasks'[k].i]

\* C21: no queued operation is applied to the repository successfully more
\* than once: a call that succeeds is never for an operation whose call has
\* succeeded before, in this pass or in another one.
C21_AppliedAtMostOnce ==
    [][\A k \in 1..MaxTasks :
          (CallIssued(k) /\ IssuedOp(k).id \notin tasks'[k].failed)
              => IssuedOp(k).id \notin applied]_vars

\* C22: within a pass, no repository call is issued for an operation that
\* comes after one whose call failed in that pass.
C22_NoCallAfterFailure ==
    [][\A k \in 1..MaxTasks :
          CallIssued(k) =>
              \A j \in 1..(tasks'[k].i - 1) : tasks'[k].q[j].id \notin tasks'[k].failed]_vars

\* C23: a sync cycle, of the hook or of the store, begins with the
\* reachability check and goes on to replay the queue or to refetch only
\* when the check has succeeded; when the check fails the cycle ends in
\* error with the queue and the collection unchanged.
C23_CheckComesFirst ==
    [][/\ \A k \in 1..MaxTasks :
            /\ (tasks[k].kind = "idle" /\ tasks'[k].kind \in {"sync", "cloud"})
                    => tasks'[k].pc = "check"
            /\ (tasks[k].kind # "idle" /\ tasks[k].pc = "check" /\ tasks'[k] # tasks[k])
                    => (tasks[k].res.ok \/ tasks'[k] = Idle)
       /\ (ev'.a = "CheckDone" /\ ~ev'.ok)
            => (syncStatus' = "error" /\ UNCHANGED <<offlineQueue, notes>>)]_vars

\* the refetch that ends a sync cycle (or a fetchNotes() called on its own,
\* online) has just succeeded, and so has every step of the cycle before it
CycleSucceeded ==
    /\ ev'.a = "FetchDone"
    /\ ev'.ok
    /\ ev'.failed = {}

\* C24: state.lastSyncAt and the persisted LAST_SYNC are written only in
\* the step that completes a sync cycle all of whose steps succeeded: not by
\* a cycle in which a step failed, and not by a fetch served from the local
\* mirror while offline.
C24_StampOnlyOnSuccess ==
    [][ev'.stamps # {} => CycleSucceeded]_vars

C26_MoveReportsFailure ==
    (ev.a \in {"MoveNote", "ReorderNotes"} /\ ev.calls > 0)
        => (ev.returned <=> ev.nulls = 0)

(* ------------------------- routing by connectivity --------------------- *)
Creates == {"CreateNote", "DuplicateNote"}

Updates == {"UpdateNote", "ArchiveNote"}

Routed == Creates \cup Updates \cup {"DeleteNote"}

OperationOf(a) ==
    IF a \in Creates THEN "create" ELSE IF a \in Updates THEN "update" ELSE "delete"

\* the queue has grown by exactly one operation, of the given kind
Enqueued(kind) ==
    /\ Len(offlineQueue') = Len(offlineQueue) + 1
    /\ SubSeq(offlineQueue', 1, Len(offlineQueue)) = offlineQueue
    /\ offlineQueue'[Len(offlineQueue')].operation = kind

\* C27 as stated: every create / update / delete action issued offline
\* calls no repository and appends its operation to the queue, and issued
\* online it leaves the queue as it is.
C27_RoutedByConnectivity ==
    [][ev'.a \in Routed =>
          IF isOnline THEN offlineQueue' = offlineQueue
          ELSE ev'.calls = 0 /\ Enqueued(OperationOf(ev'.a))]_vars

\* C27: the same, except that an update issued offline for a note that is
\* not in the collection is refused and appends nothing.
C27_RoutedUnlessNotFound ==
    [][ev'.a \in Routed =>
          IF isOnline THEN offlineQueue' = offlineQueue
          ELSE /\ ev'.calls = 0
               /\ IF ev'.a \in Updates /\ ~HasNote(notes, ev'.id)
                  THEN offlineQueue' = offlineQueue
                  ELSE Enqueued(OperationOf(ev'.a))]_vars

\* offline, an update of a note of the collection has been queued behind
\* the operation that created it, with no repository call
C27_Witness ==
    /\ ~isOnline
    /\ ev.a = "UpdateNote" /\ ev.calls = 0
    /\ HasNote(notes, ev.id)
    /\ Len(offlineQueue) = 2
    /\ offlineQueue[1].operation = "create"
    /\ offlineQueue[2].operation = "update" /\ offlineQueue[2].data.id = ev.id

\* C28: the offline queue persisted under OFFLINE_QUEUE holds the operations
\* of the in-memory offlineQueue, in the same order, after every action.
C28_QueueMirrored == storedQueue = offlineQueue

\* C29: the store is notified of a connectivity state only when it differs
\* from the current one, so that an observation that repeats the current
\* state (initial setup, forced recheck, repeated `online` event) triggers
\* no sync: it issues no repository call and starts no cycle.
C29_NotifiedOncePerChange ==
    [][(ev'.a = "SetOnlineStatus" /\ isOnline' = isOnline)
            => (ev'.calls = 0 /\ UNCHANGED tasks)]_vars

\* the steps in which a timer of useSync calls sync()
TimerFires == {"IntervalFire", "RetryFire", "ReconnectFire"}

\* C30: once the hook is unmounted, none of its timers starts a sync cycle.
C30_NoCycleAfterTeardown ==
    [][ev'.a \in TimerFires => mounted]_vars

\* C31: a retry timeout that was pending when forceSync() or retryFailedSync()
\* was called never fires afterwards: no sync cycle is started by a retry
\* scheduled before the manual call.
C31_ManualSyncSupersedesRetries ==
    [][ev'.a = "RetryFire" => ~ev'.timer.superseded]_vars

\* a retry is scheduled in the step
RetryScheduled == Len(retryTimers') > Len(retryTimers)

\* C32: among the cycles of sync() that fail one after the other, with no
\* cycle that succeeded and no manual reset (forceSync, retryFailedSync,
\* resetSync) in between, the delay of each retry scheduled is twice the
\* delay of the retry scheduled before it, the first being RETRY_DELAY; and a
\* cycle of sync() that succeeds sets the attempt counter to 0.
C32_DelayDoubles ==
    [][/\ RetryScheduled =>
            \E j \in 1..Len(retryTimers') :
                /\ retryTimers'[j].held
                /\ retryTimers'[j].delay =
                      IF lastDelay = 0 THEN RETRY_DELAY ELSE 2 * lastDelay
       /\ (ev'.a = "FetchDone" /\ ev'.kind = "sync" /\ ev'.ok /\ ev'.failed = {})
            => retryCount' = 0]_vars

\* what a note holds, whatever its identifier: its fields and the title of
\* its parent
contentOf(rows, k) ==
    [title       |-> rows[k].title,
     position    |-> rows[k].position,
     is_archived |-> rows[k].is_archived,
     parent      |-> IF HasNote(rows, rows[k].parent_id)
                     THEN rows[findIndex(rows, rows[k].parent_id)].title
                     ELSE <<>>]

Holding(rows, c) == {k \in 1..Len(rows) : contentOf(rows, k) = c}

\* two collections hold the same notes up to the identifiers and the order
SameContent(a, b) ==
    /\ Len(a) = Len(b)
    /\ \A k \in 1..Len(a) :
          Cardinality(Holding(a, contentOf(a, k))) = Cardinality(Holding(b, contentOf(a, k)))

\* C33: when processOfflineQueue() has replayed the whole queue against a
\* repository that answered every call, the repository holds what it would
\* hold had the actions been issued online, which is what the collection of
\* the store shows: the same notes with the same fields and parents, up to
\* the identifiers.
C33_ReplayEqualsOnline ==
    [][(ev'.a = "DrainEnd" /\ ev'.q = offlineQueue /\ isOnline)
            => SameContent(server', notes')]_vars

\* in this step the response of the getAll that slot k was waiting for has
\* arrived with the rows requested
Refetched(k) ==
    /\ ev'.a = "FetchDone"
    /\ tasks[k].kind # "idle" /\ tasks[k].pc = "fetch" /\ tasks[k].res.ok
    /\ tasks'[k] = Idle

noteOf(ns, id) == ns[findIndex(ns, id)]

\* the collection shows for id the row an online action has written to the
\* repository after the rows of `snapshot` were read
WrittenSince(snapshot, id) ==
    /\ HasNote(notes, id) /\ HasNote(server, id)
    /\ noteOf(notes, id) = noteOf(server, id)
    /\ ~HasNote(snapshot, id) \/ noteOf(snapshot, id) # noteOf(server, id)

\* C34: a note that an action has added to the collection, or edited in it,
\* while a refetch was in flight is still in the collection, with the edit,
\* when fetchNotes() replaces the collection with the rows it requested.
C34_RefetchKeepsLocalWrites ==
    [][\A k \in 1..MaxTasks :
          Refetched(k) =>
              \A id \in NoteIds(notes) :
                  WrittenSince(tasks[k].res.data, id)
                      => HasNote(notes', id) /\ noteOf(notes', id) = noteOf(notes, id)]_vars

\* C35: the value under STORAGE_KEYS.NOTES is always the collection that
\* NoteStorage.setNotes wrote last: no step ends with another writer, the
\* persist middleware of the store, having written that key after it.
C35_NotesKeySingleWriter == ev.a # "Init" => ev.key # "persist"

\* C36: selectedNoteId is null or the id of a note of the collection.
C36_SelectionInCollection ==
    selectedNoteId = NoSelection \/ HasNote(notes, selectedNoteId)

\* C37: at most one retry timeout is pending: scheduleRetry() arms a timeout
\* only when none is pending, so retryTimeoutRef holds every pending one.
C37_OneRetryPending ==
    /\ Len(retryTimers) <= 1
    /\ \A j \in 1..Len(retryTimers) : retryTimers[j].held

\* the ids of the nodes of a tree, every node counted, parents first
RECURSIVE NodeIds(_)
RECURSIVE NodeIdsFrom(_, _)
NodeIdsFrom(tree, k) ==
    IF k > Len(tree) THEN <<>>
    ELSE <<tree[k].id>> \o NodeIds(tree[k].children) \o NodeIdsFrom(tree, k + 1)

NodeIds(tree) == NodeIdsFrom(tree, 1)

\* the parent chain of the note ends at a note without a parent
Rooted(ns, id) == Hops(ns, id) >= 0

\* C38: buildNoteTree returns for every collection with unique ids, also
\* when the parent relation has a cycle or a note is its own parent; the tree
\* holds each note whose parent chain ends at a root exactly once, and none
\* of the notes on or below a cycle.
C38_TreeOfAnyCollection ==
    ev.a = "BuildNoteTree" =>
        /\ noteTree = buildNoteTree(notes)
        /\ \A i, j \in 1..Len(NodeIds(noteTree)) :
              NodeIds(noteTree)[i] = NodeIds(noteTree)[j] => i = j
        /\ \A id \in NoteIds(notes) :
              (\E i \in 1..Len(NodeIds(noteTree)) : NodeIds(noteTree)[i] = id)
                  <=> Rooted(notes, id)

\* the tree of a collection in which note 1 is a root, note 2 its child and
\* note 3 its own parent
C38_Witness ==
    /\ ev.a = "BuildNoteTree"
    /\ Len(notes) = MaxNotes
    /\ notes[1].parent_id = NoParent
    /\ notes[2].parent_id = 1
    /\ notes[3].parent_id = 3
    /\ NodeIds(noteTree) = <<1, 2>>

\* a is reached from x by following parent_id at most fuel times
RECURSIVE AncestorWithin(_, _, _, _)
AncestorWithin(ns, a, x, fuel) ==
    IF fuel = 0 \/ ~HasNote(ns, x) THEN FALSE
    ELSE LET p == ns[findIndex(ns, x)].parent_id
         IN  p = a \/ (p # NoParent /\ AncestorWithin(ns, a, p, fuel - 1))

\* C39: on an acyclic collection canMoveNote(noteId, targetParentId) is
\* false exactly when the target is the note itself or one of its
\* descendants (a note from which noteId is reached through parent_id), and
\* true otherwise, in particular for the target null; the descendants it
\* looks through are the notes getDescendants lists.
C39_CanMoveUnlessDescendant ==
    ev.a = "CanMoveNote" =>
        /\ ev.result =
              ~(\/ ev.target = ev.id
                \/ AncestorWithin(notes, ev.id, ev.target, Len(notes)))
        /\ ev.target = NoParent => ev.result
        /\ {ev.descendants[k].id : k \in 1..Len(ev.descendants)}
              = getDescendants(notes, ev.id)

\* canMoveNote has refused to move a note below the child of its child
C39_Witness ==
    /\ ev.a = "CanMoveNote"
    /\ ~ev.result
    /\ ev.target # ev.id
    /\ HasNote(notes, ev.target)
    /\ noteOf(notes, ev.target).parent_id # ev.id
    /\ Len(ev.descendants) = 2

====
